---------------------------- MODULE Spec2Model ----------------------------
(***************************************************************************)
(* Model of three scripts of ai-agents-from-scratch:                       *)
(*   react-agent/react-agent.py            the ReAct loop  (SpecReact)      *)
(*   simple-agent-with-memory/*.py         the memory file (SpecMem,        *)
(*                                         SpecMemSeq, SpecRuns)            *)
(*   batch/batch.py                        the gather fan-out (SpecBatch)   *)
(*                                                                         *)
(* A Python string is a sequence of fragments; text whose characters       *)
(* matter (the streamed text, tool results) is a sequence of one-character *)
(* strings, a fixed literal of the program is one fragment.                *)
(***************************************************************************)
EXTENDS Integers, Sequences, FiniteSets, TLC

VARIABLES
    \* ---- react_agent (src/react-agent/react-agent.py) ----
    rpc,             \* position: "loop" | "check" | "returned" | "raised"
    user_prompt,     \* argument
    max_iterations,  \* argument
    iteration,       \* local
    full_response,   \* local
    current_chunk,   \* local (text streamed in the current iteration)
    messages,        \* local
    check_response,  \* local (the last non-streaming response; <<>> before)
    result,          \* return value (once rpc = "returned")
    streamCalls,     \* number of create_chat_completion(stream=True) requests
    checkCalls,      \* number of create_chat_completion(max_tokens=1) requests
    toolExecs,       \* number of execute_function_call invocations
    streamed,        \* stdout: the text printed by each iteration, in order
    \* ---- the memory file (src/simple-agent-with-memory) ----
    file,            \* content of the memory file
    now,             \* the clock read by datetime.now()
    \* ---- save_memories / load_memories round trip ----
    rtpc,            \* "start" | "saved" | "loaded" | "resaved"
    rtm,             \* the memories passed to save_memories
    rtloaded,        \* what load_memories returned
    rtprev,          \* the file as the first save_memories left it
    \* ---- a single client calling MemoryManager ----
    calls,           \* number of calls made
    last,            \* the last call: operation, arguments, outcome
    \* ---- two clients calling MemoryManager at the same time ----
    mpc,             \* per client: "call" | "modified" | "opened" | "done" | "raised"
    mop,             \* per client: the call it makes
    mem,             \* per client: its local `memories`
    file0,           \* the file before the first call
    writes,          \* number of times the file was opened for writing
    seen,            \* per client: the value of `writes` when it loaded
    \* ---- runs of simple-agent-with-memory.py ----
    spc,             \* "start" | "chat1" | "chat2" | "ended" | "crashed"
    runs,            \* number of runs started
    agent_prompt,    \* system_prompt of the current run
    agent_messages,  \* messages of the current run
    stored,          \* log of the save_memory calls that stored something
    \* ---- batch.py ----
    bmain,           \* main: "gather" | "done" | "failed"
    task,            \* per process_prompt coroutine: "new" | "waiting" | "returned" | "failed"
    job,             \* per executor job: "none" | "queued" | "running" | "finished" | "crashed"
    raced,           \* per job: it ran while the other job was running
    answers,         \* per job: the answer of its chat completion
    finished,        \* the jobs in the order they finished
    results,         \* what asyncio.gather returned
    printed          \* stdout

reactVars == <<rpc, user_prompt, max_iterations, iteration, full_response,
               current_chunk, messages, check_response, result, streamCalls,
               checkCalls, toolExecs, streamed>>

fileVars == <<file, now>>

rtVars == <<rtpc, rtm, rtloaded, rtprev>>

seqVars == <<calls, last>>

concVars == <<mpc, mop, mem, file0, writes, seen>>

runVars == <<spc, runs, agent_prompt, agent_messages, stored>>

batchVars == <<bmain, task, job, raced, answers, finished, results, printed>>

vars == <<reactVars, fileVars, rtVars, seqVars, concVars, runVars, batchVars>>

\* What each script leaves alone
exceptReact == <<fileVars, rtVars, seqVars, concVars, runVars, batchVars>>
exceptRoundTrip == <<reactVars, seqVars, concVars, runVars, batchVars>>
exceptClient == <<reactVars, rtVars, concVars, runVars, batchVars>>
exceptConcurrent == <<reactVars, rtVars, seqVars, runVars, batchVars>>
exceptRuns == <<reactVars, rtVars, seqVars, concVars, batchVars>>
exceptBatch == <<reactVars, fileVars, rtVars, seqVars, concVars, runVars>>

-----------------------------------------------------------------------------
(* Bounds *)

MaxIterations == 3

\* longest facts list of a memory object handed to save_memories
MaxFacts == 2

\* number of times the memory agent script is run
MaxRuns == 2

\* number of MemoryManager calls a client makes
MaxCalls == 3

\* last reading of the clock
MaxClock == 1

-----------------------------------------------------------------------------
(* Strings *)

None == <<"None">>

\* str.lower() on the characters the model uses
LowerChar(c) ==
    CASE c = "A" -> "a"
      [] c = "N" -> "n"
      [] c = "S" -> "s"
      [] c = "W" -> "w"
      [] c = "E" -> "e"
      [] c = "R" -> "r"
      [] c = "T" -> "t"
      [] OTHER -> c

Lower(s) == [i \in 1..Len(s) |-> LowerChar(s[i])]

\* Python's `needle in hay`
Contains(hay, needle) ==
    \E i \in 0..(Len(hay) - Len(needle)) :
        \A j \in 1..Len(needle) : hay[i + j] = needle[j]

AnswerMarker == <<"a", "n", "s", "w", "e", "r", ":">>

RECURSIVE Flatten(_)
Flatten(ss) == IF ss = <<>> THEN <<>> ELSE Head(ss) \o Flatten(Tail(ss))


\* str(n) for an int
RECURSIVE NatStr(_)
NatStr(n) ==
    LET d == <<"0", "1", "2", "3", "4", "5", "6", "7", "8", "9">>[(n % 10) + 1]
    IN  IF n < 10 THEN <<d>> ELSE NatStr(n \div 10) \o <<d>>

IntStr(n) == IF n < 0 THEN <<"-">> \o NatStr(0 - n) ELSE NatStr(n)

\* str(x) for the float x = a / b, on the inputs where b divides a
FloatStr(a, b) == IntStr(a \div b) \o <<".", "0">>

-----------------------------------------------------------------------------
(* react-agent.py: the calculator tools *)

Raised(e) == [raised |-> TRUE, value |-> <<e>>]
Returned(v) == [raised |-> FALSE, value |-> v]

add(a, b) == IntStr(a + b)
multiply(a, b) == IntStr(a * b)
subtract(a, b) == IntStr(a - b)
divide(a, b) ==
    IF b = 0 THEN <<"Error: Cannot divide by zero">> ELSE FloatStr(a, b)

func_map == {"add", "multiply", "subtract", "divide"}

execute_function_call(function_name, arguments) ==
    IF function_name \in func_map
    THEN IF {"a", "b"} \subseteq DOMAIN arguments
         THEN LET a == arguments["a"]
                  b == arguments["b"]
              IN  Returned(CASE function_name = "add" -> add(a, b)
                             [] function_name = "multiply" -> multiply(a, b)
                             [] function_name = "subtract" -> subtract(a, b)
                             [] function_name = "divide" -> divide(a, b))
         ELSE Raised("KeyError")
    ELSE Returned(<<"Error: Unknown function ", function_name>>)

\* json.loads on the argument strings the model can send
JsonLoads(s) ==
    CASE s = "{\"a\": 2, \"b\": 3}" -> [ok |-> TRUE, val |-> [a |-> 2, b |-> 3]]
      [] s = "{\"a\": 6, \"b\": 0}" -> [ok |-> TRUE, val |-> [a |-> 6, b |-> 0]]
      [] s = "{\"a\": 6, \"b\": 2}" -> [ok |-> TRUE, val |-> [a |-> 6, b |-> 2]]
      [] s = "{\"a\": 2}" -> [ok |-> TRUE, val |-> [a |-> 2]]
      [] OTHER -> [ok |-> FALSE, val |-> <<>>]

\* json.loads(arguments) if arguments else {}
FunctionArgs(arguments) ==
    IF arguments = "" THEN [ok |-> TRUE, val |-> <<>>] ELSE JsonLoads(arguments)

\* The for loop over check_message["tool_calls"]: the tool messages appended
\* before the loop ends or a call raises, and the number of tools executed.
RECURSIVE ExecuteToolCalls(_, _, _)
ExecuteToolCalls(tool_calls, msgs, execs) ==
    IF tool_calls = <<>>
    THEN [raised |-> FALSE, msgs |-> msgs, execs |-> execs]
    ELSE LET tool_call == Head(tool_calls)
             function_args == FunctionArgs(tool_call.function.arguments)
         IN  IF ~function_args.ok
             THEN [raised |-> TRUE, msgs |-> msgs, execs |-> execs]
             ELSE LET function_response ==
                          execute_function_call(tool_call.function.name,
                                                function_args.val)
                  IN  IF function_response.raised
                      THEN [raised |-> TRUE, msgs |-> msgs, execs |-> execs + 1]
                      ELSE ExecuteToolCalls(
                               Tail(tool_calls),
                               Append(msgs, [role |-> "tool",
                                             tool_call_id |-> tool_call.id,
                                             content |-> function_response.value]),
                               execs + 1)

-----------------------------------------------------------------------------
(* react-agent.py: what the model can send *)

Delta(c) == [choices |-> <<[delta |-> [content |-> c]]>>]
DeltaRole == [choices |-> <<[delta |-> [role |-> "assistant"]]>>]
DeltaNone == [choices |-> <<[finish_reason |-> "stop"]>>]
ChunkNoChoices == [choices |-> <<>>]
ChunkNoKey == [id |-> "chatcmpl"]

\* Streamed responses: sequences of chunks
Streams == <<
    <<DeltaRole, Delta(<<"A", "n", "s">>), Delta(<<"w", "e", "r">>)>>,
    <<Delta(<<"a", "n", "s">>)>>,
    <<Delta(<<"w", "e", "r", ":">>)>>,
    <<Delta(<<"A", "N", "S">>), ChunkNoChoices, Delta(<<"W", "E", "R", ":">>),
      Delta(<<"8">>)>>,
    <<ChunkNoKey, Delta(<<>>), DeltaNone>>,
    <<Delta(<<"T">>), Delta(<<"a", "n", "s", "w", "e", "r", ":", "5">>)>>
>>

ToolCall(id, name, arguments) ==
    [id |-> id, function |-> [name |-> name, arguments |-> arguments]]

\* Non-streaming check responses: choices[0].message
CheckMessages == <<
    [role |-> "assistant", content |-> <<>>],
    [role |-> "assistant", content |-> None, tool_calls |-> <<>>],
    [role |-> "assistant", content |-> None,
     tool_calls |-> <<ToolCall("c1", "add", "{\"a\": 2, \"b\": 3}")>>],
    [role |-> "assistant", content |-> None,
     tool_calls |-> <<ToolCall("c1", "divide", "{\"a\": 6, \"b\": 0}"),
                      ToolCall("c2", "pow", "")>>],
    [role |-> "assistant", content |-> None,
     tool_calls |-> <<ToolCall("c1", "divide", "{\"a\": 6, \"b\": 2}"),
                      ToolCall("c2", "multiply", "")>>],
    [role |-> "assistant", content |-> None,
     tool_calls |-> <<ToolCall("c1", "subtract", "{\"a\": 2")>>],
    [role |-> "assistant", content |-> None,
     tool_calls |-> <<ToolCall("c1", "subtract", "{\"a\": 2}")>>]
>>

UserPrompts == {<<"What is 5 + 3, then multiply that by 2?">>}

system_prompt == <<"system_prompt">>

Fallback == <<"Could not complete reasoning within iteration limit.">>

ContinuePrompt == <<"Continue your reasoning. What's the next step?">>

-----------------------------------------------------------------------------
(* The parts of the state a script does not touch *)

ReactIdle ==
    /\ rpc = "idle"
    /\ user_prompt = <<>>
    /\ max_iterations = 0
    /\ iteration = 0
    /\ full_response = <<>>
    /\ current_chunk = <<>>
    /\ messages = <<>>
    /\ check_response = <<>>
    /\ result = <<>>
    /\ streamCalls = 0
    /\ checkCalls = 0
    /\ toolExecs = 0
    /\ streamed = <<>>

FileIdle ==
    /\ file = [kind |-> "missing", text |-> <<>>]
    /\ now = 0

RoundTripIdle ==
    /\ rtpc = "idle"
    /\ rtm = <<>>
    /\ rtloaded = <<>>
    /\ rtprev = <<>>

ClientIdle ==
    /\ calls = 0
    /\ last = <<>>

ConcurrentIdle ==
    /\ mpc = <<>>
    /\ mop = <<>>
    /\ mem = <<>>
    /\ file0 = <<>>
    /\ writes = 0
    /\ seen = <<>>

RunsIdle ==
    /\ spc = "idle"
    /\ runs = 0
    /\ agent_prompt = <<>>
    /\ agent_messages = <<>>
    /\ stored = <<>>

BatchIdle ==
    /\ bmain = "idle"
    /\ task = <<>>
    /\ job = <<>>
    /\ raced = <<>>
    /\ answers = <<>>
    /\ finished = <<>>
    /\ results = <<>>
    /\ printed = <<>>

-----------------------------------------------------------------------------
(* react-agent.py: react_agent *)

\* The `for chunk in response` loop: the text collected from a stream
RECURSIVE Collect(_)
Collect(response) ==
    IF response = <<>> THEN <<>>
    ELSE LET chunk == Head(response)
             delta == IF "choices" \in DOMAIN chunk /\ Len(chunk.choices) > 0
                      THEN IF "delta" \in DOMAIN chunk.choices[1]
                           THEN chunk.choices[1].delta
                           ELSE <<>>
                      ELSE <<>>
             content == IF "content" \in DOMAIN delta /\ delta.content # <<>>
                        THEN delta.content
                        ELSE <<>>
         IN  content \o Collect(Tail(response))

\* The test on the accumulated text instead of the pass's own text
FinalAnswerReached_accumulated == Contains(Lower(full_response), AnswerMarker)

\* "answer:" in current_chunk.lower()
FinalAnswerReached == Contains(Lower(current_chunk), AnswerMarker)

\* The return value without the `or` fallback
LimitResult_nofallback(full) == full

\* full_response or "Could not complete reasoning within iteration limit."
LimitResult(full) == IF full = <<>> THEN Fallback ELSE full

InitReact ==
    /\ rpc = "loop"
    /\ user_prompt \in UserPrompts
    /\ max_iterations \in {0 - 1} \cup (0..MaxIterations)
    /\ iteration = 0
    /\ full_response = <<>>
    /\ current_chunk = <<>>
    /\ messages = <<[role |-> "system", content |-> system_prompt],
                    [role |-> "user", content |-> user_prompt]>>
    /\ check_response = <<>>
    /\ result = <<>>
    /\ streamCalls = 0
    /\ checkCalls = 0
    /\ toolExecs = 0
    /\ streamed = <<>>

\* One pass from the loop test to the return or to the check request
\* (lines 174-209): `response` is what the streaming request yields.
Iterate(response) ==
    /\ rpc = "loop"
    /\ iteration < max_iterations
    /\ LET chunk == Collect(response)
           full == full_response \o chunk
       IN  /\ iteration' = iteration + 1
           /\ streamCalls' = streamCalls + 1
           /\ current_chunk' = chunk
           /\ streamed' = Append(streamed, chunk)
           /\ full_response' = full
           /\ messages' = Append(messages,
                                 [role |-> "assistant", content |-> chunk])
           /\ IF FinalAnswerReached'
              THEN rpc' = "returned" /\ result' = full
              ELSE rpc' = "check" /\ UNCHANGED result
    /\ UNCHANGED <<user_prompt, max_iterations, check_response, checkCalls,
                   toolExecs>>
    /\ UNCHANGED exceptReact

\* The update of the last message that appends the check message instead
ReplaceLast_append(msgs, check_message) == Append(msgs, check_message)

\* messages[-1] = check_message (line 223)
ReplaceLast(msgs, check_message) ==
    [msgs EXCEPT ![Len(msgs)] = check_message]

\* The rest of the pass (lines 211-244): `check_message` is the message of
\* the non-streaming response.
Check(check_message) ==
    /\ rpc = "check"
    /\ checkCalls' = checkCalls + 1
    /\ check_response' = [choices |-> <<[message |-> check_message]>>]
    /\ IF "tool_calls" \in DOMAIN check_message
          /\ check_message.tool_calls # <<>>
       THEN LET replaced == ReplaceLast(messages, check_message)
                run == ExecuteToolCalls(check_message.tool_calls, replaced, 0)
            IN  /\ messages' = run.msgs
                /\ toolExecs' = toolExecs + run.execs
                /\ rpc' = IF run.raised THEN "raised" ELSE "loop"
       ELSE /\ messages' = Append(messages, [role |-> "user",
                                             content |-> ContinuePrompt])
            /\ rpc' = "loop"
            /\ UNCHANGED toolExecs
    /\ UNCHANGED <<user_prompt, max_iterations, iteration, full_response,
                   current_chunk, result, streamCalls, streamed>>
    /\ UNCHANGED exceptReact

\* The loop test fails (lines 246-247)
LimitReached ==
    /\ rpc = "loop"
    /\ ~(iteration < max_iterations)
    /\ rpc' = "returned"
    /\ result' = LimitResult(full_response)
    /\ UNCHANGED <<user_prompt, max_iterations, iteration, full_response,
                   current_chunk, messages, check_response, streamCalls,
                   checkCalls, toolExecs, streamed>>
    /\ UNCHANGED exceptReact

NextReact ==
    \/ \E i \in 1..Len(Streams) : Iterate(Streams[i])
    \/ \E i \in 1..Len(CheckMessages) : Check(CheckMessages[i])
    \/ LimitReached

InitSpecReact ==
    InitReact /\ FileIdle /\ RoundTripIdle /\ ClientIdle /\ ConcurrentIdle
    /\ RunsIdle /\ BatchIdle

SpecReact == InitSpecReact /\ [][NextReact]_vars

-----------------------------------------------------------------------------
(* Python values that json can hold: str, None, list, dict.  A dict keeps  *)
(* its insertion order, as Python's does.                                  *)

Str(s) == [k |-> "str", s |-> s, items |-> <<>>]
Null == [k |-> "null", s |-> <<>>, items |-> <<>>]
List(items) == [k |-> "list", s |-> <<>>, items |-> items]
Dict(items) == [k |-> "dict", s |-> <<>>, items |-> items]
Item(key, val) == [key |-> key, val |-> val]

\* bool(v)
Truthy(v) ==
    CASE v.k = "str" -> v.s # <<>>
      [] v.k = "null" -> FALSE
      [] OTHER -> v.items # <<>>

\* key in d
HasKey(d, key) == \E i \in 1..Len(d.items) : d.items[i].key = key

\* d[key], for a key of d
Get(d, key) ==
    d.items[CHOOSE i \in 1..Len(d.items) : d.items[i].key = key].val

\* d[key] = val: a new key goes last, a known key keeps its place
Set(d, key, val) ==
    IF HasKey(d, key)
    THEN Dict([i \in 1..Len(d.items) |->
                  IF d.items[i].key = key THEN Item(key, val) ELSE d.items[i]])
    ELSE Dict(Append(d.items, Item(key, val)))

-----------------------------------------------------------------------------
(* json.dump and json.load, on token sequences (white space left out) *)

Tok(t, v) == [t |-> t, v |-> v]
Punct(t) == Tok(t, <<>>)

RECURSIVE Dumps(_), DumpItems(_), DumpMembers(_)

\* json.dump(memories, f, indent=2, ensure_ascii=False)
Dumps(v) ==
    CASE v.k = "str" -> <<Tok("str", v.s)>>
      [] v.k = "null" -> <<Punct("null")>>
      [] v.k = "list" -> <<Punct("[")>> \o DumpItems(v.items) \o <<Punct("]")>>
      [] v.k = "dict" -> <<Punct("{")>> \o DumpMembers(v.items) \o <<Punct("}")>>

DumpItems(items) ==
    IF items = <<>> THEN <<>>
    ELSE Dumps(Head(items))
         \o (IF Len(items) > 1 THEN <<Punct(",")>> ELSE <<>>)
         \o DumpItems(Tail(items))

DumpMembers(items) ==
    IF items = <<>> THEN <<>>
    ELSE <<Tok("str", Head(items).key), Punct(":")>> \o Dumps(Head(items).val)
         \o (IF Len(items) > 1 THEN <<Punct(",")>> ELSE <<>>)
         \o DumpMembers(Tail(items))

ParseFail == [ok |-> FALSE, val |-> Null, next |-> 0]
ParseOk(v, next) == [ok |-> TRUE, val |-> v, next |-> next]

\* the token at position i, or an end marker
At(toks, i) == IF i <= Len(toks) THEN toks[i].t ELSE "eof"

RECURSIVE ParseValue(_, _), ParseItems(_, _, _), ParseMembers(_, _, _)

\* the JSON value that starts at token i
ParseValue(toks, i) ==
    CASE At(toks, i) = "str" -> ParseOk(Str(toks[i].v), i + 1)
      [] At(toks, i) = "null" -> ParseOk(Null, i + 1)
      [] At(toks, i) = "[" ->
            IF At(toks, i + 1) = "]" THEN ParseOk(List(<<>>), i + 2)
            ELSE ParseItems(toks, i + 1, <<>>)
      [] At(toks, i) = "{" ->
            IF At(toks, i + 1) = "}" THEN ParseOk(Dict(<<>>), i + 2)
            ELSE ParseMembers(toks, i + 1, Dict(<<>>))
      [] OTHER -> ParseFail

ParseItems(toks, i, acc) ==
    CHOOSE out \in
        { IF ~r.ok THEN ParseFail
          ELSE CASE At(toks, r.next) = "," ->
                        ParseItems(toks, r.next + 1, Append(acc, r.val))
                 [] At(toks, r.next) = "]" ->
                        ParseOk(List(Append(acc, r.val)), r.next + 1)
                 [] OTHER -> ParseFail
          : r \in {ParseValue(toks, i)} } : TRUE

ParseMembers(toks, i, acc) ==
    IF At(toks, i) # "str" \/ At(toks, i + 1) # ":" THEN ParseFail
    ELSE CHOOSE out \in
             { IF ~r.ok THEN ParseFail
               ELSE CASE At(toks, r.next) = "," ->
                             ParseMembers(toks, r.next + 1,
                                          Set(acc, toks[i].v, r.val))
                      [] At(toks, r.next) = "}" ->
                             ParseOk(Set(acc, toks[i].v, r.val), r.next + 1)
                      [] OTHER -> ParseFail
               : r \in {ParseValue(toks, i + 2)} } : TRUE

\* json.load(f) on decoded text: one value and nothing after it
JsonLoad(toks) ==
    CHOOSE out \in
        { IF r.ok /\ r.next = Len(toks) + 1 THEN r ELSE ParseFail
          : r \in {ParseValue(toks, 1)} } : TRUE

-----------------------------------------------------------------------------
(* memory_manager.py: MemoryManager                                        *)
(* A local variable of the code is a CHOOSE over the one-element set of    *)
(* its value: the value is computed once, however often it is read.        *)

\* The memory file: absent, bytes that are not UTF-8, or text
FileMissing == [kind |-> "missing", text |-> <<>>]
FileBytes == [kind |-> "bytes", text |-> <<>>]
FileText(toks) == [kind |-> "text", text |-> toks]

Ok(v) == [raised |-> FALSE, value |-> v]
Raise == [raised |-> TRUE, value |-> Null]

EmptyMemory ==
    Dict(<<Item(<<"facts">>, List(<<>>)),
           Item(<<"preferences">>, Dict(<<>>)),
           Item(<<"conversations">>, List(<<>>))>>)

\* load_memories: FileNotFoundError and JSONDecodeError are caught, the
\* UnicodeDecodeError of f.read() is not
load_memories(f) ==
    CASE f.kind = "missing" -> Ok(EmptyMemory)
      [] f.kind = "bytes" -> Raise
      [] f.kind = "text" ->
            CHOOSE out \in
                { IF r.ok THEN Ok(r.val) ELSE Ok(EmptyMemory)
                  : r \in {JsonLoad(f.text)} } : TRUE

\* save_memories that writes the facts only
save_memories_factsonly(memories) ==
    FileText(Dumps(IF memories.k = "dict" /\ HasKey(memories, <<"facts">>)
                   THEN Dict(<<Item(<<"facts">>, Get(memories, <<"facts">>))>>)
                   ELSE memories))

\* save_memories: the file after open(..., 'w') and json.dump
save_memories(memories) == FileText(Dumps(memories))

\* datetime.now().isoformat()
IsoFormat(t) == NatStr(t)

FactEntry(fact, t) ==
    Dict(<<Item(<<"content">>, fact), Item(<<"timestamp">>, Str(IsoFormat(t)))>>)

\* add_fact's update that puts the new entry first
WithFact_prepend(memories, fact, t) ==
    IF memories.k = "dict" /\ HasKey(memories, <<"facts">>)
       /\ Get(memories, <<"facts">>).k = "list"
    THEN Ok(Set(memories, <<"facts">>,
                List(<<FactEntry(fact, t)>>
                     \o Get(memories, <<"facts">>).items)))
    ELSE Raise

\* add_fact's update that keeps the new entry only
WithFact_replace(memories, fact, t) ==
    IF memories.k = "dict" /\ HasKey(memories, <<"facts">>)
       /\ Get(memories, <<"facts">>).k = "list"
    THEN Ok(Set(memories, <<"facts">>, List(<<FactEntry(fact, t)>>)))
    ELSE Raise

\* memories['facts'].append({...}) (lines 34-37)
WithFact(memories, fact, t) ==
    IF memories.k = "dict" /\ HasKey(memories, <<"facts">>)
       /\ Get(memories, <<"facts">>).k = "list"
    THEN Ok(Set(memories, <<"facts">>,
                List(Append(Get(memories, <<"facts">>).items,
                            FactEntry(fact, t)))))
    ELSE Raise

\* memories['preferences'][key] = value (line 43)
WithPreference(memories, key, value) ==
    IF memories.k = "dict" /\ HasKey(memories, <<"preferences">>)
       /\ Get(memories, <<"preferences">>).k = "dict"
    THEN Ok(Set(memories, <<"preferences">>,
                Set(Get(memories, <<"preferences">>), key, value)))
    ELSE Raise

\* repr(v), as an f-string shows a list or a dict
RECURSIVE Repr(_), ReprItems(_), ReprMembers(_)
Repr(v) ==
    CASE v.k = "str" -> <<"'">> \o v.s \o <<"'">>
      [] v.k = "null" -> <<"None">>
      [] v.k = "list" -> <<"[">> \o ReprItems(v.items) \o <<"]">>
      [] v.k = "dict" -> <<"{">> \o ReprMembers(v.items) \o <<"}">>

ReprItems(items) ==
    IF items = <<>> THEN <<>>
    ELSE Repr(Head(items)) \o (IF Len(items) > 1 THEN <<", ">> ELSE <<>>)
         \o ReprItems(Tail(items))

ReprMembers(items) ==
    IF items = <<>> THEN <<>>
    ELSE <<"'">> \o Head(items).key \o <<"'", ": ">> \o Repr(Head(items).val)
         \o (IF Len(items) > 1 THEN <<", ">> ELSE <<>>)
         \o ReprMembers(Tail(items))

\* f"{v}"
Format(v) == IF v.k = "str" THEN v.s ELSE Repr(v)

\* add_fact (lines 31-38): the outcome and the file it leaves
add_fact(f, fact, t) ==
    CHOOSE out \in
        { IF memories.raised THEN [raised |-> TRUE, file |-> f]
          ELSE [raised |-> FALSE, file |-> save_memories(memories.value)]
          : memories \in
                { IF loaded.raised THEN Raise
                  ELSE WithFact(loaded.value, fact, t)
                  : loaded \in {load_memories(f)} } } : TRUE

\* add_preference (lines 40-44)
add_preference(f, key, value) ==
    CHOOSE out \in
        { IF memories.raised THEN [raised |-> TRUE, file |-> f]
          ELSE [raised |-> FALSE, file |-> save_memories(memories.value)]
          : memories \in
                { IF loaded.raised THEN Raise
                  ELSE WithPreference(loaded.value, key, value)
                  : loaded \in {load_memories(f)} } } : TRUE

\* for fact in memories['facts']: summary += f"- {fact['content']}\n"
RECURSIVE FactLines(_)
FactLines(facts) ==
    IF facts = <<>> THEN <<>>
    ELSE <<"- ">> \o Format(Get(Head(facts), <<"content">>)) \o <<"\n">>
         \o FactLines(Tail(facts))

\* for key, value in memories['preferences'].items(): ...
RECURSIVE PreferenceLines(_)
PreferenceLines(preferences) ==
    IF preferences = <<>> THEN <<>>
    ELSE <<"- ">> \o Head(preferences).key \o <<": ">>
         \o Format(Head(preferences).val) \o <<"\n">>
         \o PreferenceLines(Tail(preferences))

\* get_memory_summary (lines 46-61): the outcome and the summary text
get_memory_summary(f) ==
    CHOOSE out \in
        { LET memories == loaded.value
              facts == Get(memories, <<"facts">>)
              preferences == Get(memories, <<"preferences">>)
          IN  IF \/ loaded.raised
                 \/ memories.k # "dict"
                 \/ ~HasKey(memories, <<"facts">>)
                 \/ (Truthy(facts) /\ facts.k # "list")
                 \/ (Truthy(facts) /\ \E i \in 1..Len(facts.items) :
                        \/ facts.items[i].k # "dict"
                        \/ ~HasKey(facts.items[i], <<"content">>))
                 \/ ~HasKey(memories, <<"preferences">>)
                 \/ (Truthy(preferences) /\ preferences.k # "dict")
              THEN [raised |-> TRUE, text |-> <<>>]
              ELSE [raised |-> FALSE,
                    text |-> <<"\n=== LONG-TERM MEMORY ===\n">>
                             \o (IF Truthy(facts)
                                 THEN <<"\nKnown Facts:\n">>
                                      \o FactLines(facts.items)
                                 ELSE <<>>)
                             \o (IF Truthy(preferences)
                                 THEN <<"\nUser Preferences:\n">>
                                      \o PreferenceLines(preferences.items)
                                 ELSE <<>>)]
          : loaded \in {load_memories(f)} } : TRUE

-----------------------------------------------------------------------------
(* What the memory file and the clock can be when a script starts *)

Pizza == Str(<<"Alex", " ", "loves", " ", "pizza">>)
Sushi == Str(<<"sushi">>)

Memory(facts, preferences, conversations) ==
    Dict(<<Item(<<"facts">>, List(facts)),
           Item(<<"preferences">>, Dict(preferences)),
           Item(<<"conversations">>, List(conversations))>>)

\* Files that hold a memory object
MemoryFiles == <<
    save_memories(EmptyMemory),
    save_memories(Memory(<<FactEntry(Sushi, 0)>>,
                         <<Item(<<"food">>, Sushi)>>, <<>>)),
    save_memories(Memory(<<FactEntry(Pizza, 0), FactEntry(Pizza, 0)>>,
                         <<Item(<<"name">>, Pizza), Item(<<"food">>, Null)>>,
                         <<Str(<<"hi">>)>>))
>>

\* Files that do not hold valid JSON
InvalidFiles == <<
    FileText(<<>>),
    FileText(<<Punct("{"), Tok("str", <<"facts">>), Punct(":"), Punct("[")>>),
    FileText(<<Punct("{"), Punct("}"), Punct("}")>>),
    FileText(<<Punct("["), Tok("str", <<"facts">>), Punct(":"), Punct("]")>>),
    FileBytes
>>

\* Files that hold JSON that is no memory object
OtherFiles == <<
    FileText(<<Punct("{"), Punct("}")>>),
    FileText(<<Punct("["), Punct("]")>>),
    FileText(<<Punct("{"), Tok("str", <<"facts">>), Punct(":"), Punct("null"),
               Punct(","), Tok("str", <<"preferences">>), Punct(":"),
               Punct("["), Punct("]"), Punct("}")>>)
>>

InitialFiles == <<FileMissing>> \o MemoryFiles \o InvalidFiles \o OtherFiles

InitFile ==
    /\ \E i \in 1..Len(InitialFiles) : file = InitialFiles[i]
    /\ now = 0

\* Time passes
Tick ==
    /\ now < MaxClock
    /\ now' = now + 1
    /\ UNCHANGED file

-----------------------------------------------------------------------------
(* save_memories followed by load_memories *)

Contents == {Pizza, Sushi, Null}

FactEntries == {FactEntry(c, t) : c \in Contents, t \in {0, 1}}

PreferenceKeys == {<<"food">>, <<"name">>}

SeqsUpTo(S, n) == UNION {[1..k -> S] : k \in 0..n}

\* dicts over PreferenceKeys, in every insertion order
PreferenceDicts ==
    {ps \in SeqsUpTo({Item(key, c) : key \in PreferenceKeys, c \in {Pizza, Null}},
                     Cardinality(PreferenceKeys)) :
        \A i, j \in 1..Len(ps) : i # j => ps[i].key # ps[j].key}

MemoryObjects ==
    {Memory(fs, ps, cs) : fs \in SeqsUpTo(FactEntries, MaxFacts),
                          ps \in PreferenceDicts,
                          cs \in {<<>>, <<Str(<<"hi">>)>>}}

InitRoundTrip ==
    /\ rtpc = "start"
    /\ rtm \in MemoryObjects
    /\ rtloaded = <<>>
    /\ rtprev = <<>>
    /\ \E i \in 1..Len(InitialFiles) : file = InitialFiles[i]
    /\ now = 0

RtSave ==
    /\ rtpc = "start"
    /\ file' = save_memories(rtm)
    /\ rtpc' = "saved"
    /\ UNCHANGED <<now, rtm, rtloaded, rtprev, exceptRoundTrip>>

RtLoad ==
    /\ rtpc = "saved"
    /\ rtloaded' = load_memories(file)
    /\ rtpc' = "loaded"
    /\ UNCHANGED <<fileVars, rtm, rtprev, exceptRoundTrip>>

RtSaveAgain ==
    /\ rtpc = "loaded"
    /\ ~rtloaded.raised
    /\ rtprev' = file
    /\ file' = save_memories(rtloaded.value)
    /\ rtpc' = "resaved"
    /\ UNCHANGED <<now, rtm, rtloaded, exceptRoundTrip>>

NextRoundTrip == RtSave \/ RtLoad \/ RtSaveAgain

InitSpecRoundTrip ==
    InitRoundTrip /\ ReactIdle /\ ClientIdle /\ ConcurrentIdle /\ RunsIdle
    /\ BatchIdle

SpecRoundTrip == InitSpecRoundTrip /\ [][NextRoundTrip]_vars

-----------------------------------------------------------------------------
(* One client that calls MemoryManager, one call after the other *)

Call(op, fact, key, value, raised, ret, text, before) ==
    [op |-> op, fact |-> fact, key |-> key, value |-> value,
     raised |-> raised, ret |-> ret, text |-> text, before |-> before]

InitClient ==
    /\ calls = 0
    /\ last = Call("none", Null, <<>>, Null, FALSE, Null, <<>>, FileMissing)

CallLoadMemories ==
    /\ calls < MaxCalls
    /\ calls' = calls + 1
    /\ LET r == load_memories(file)
       IN  last' = Call("load_memories", Null, <<>>, Null, r.raised, r.value,
                        <<>>, file)
    /\ UNCHANGED <<fileVars, exceptClient>>

CallAddFact(fact) ==
    /\ calls < MaxCalls
    /\ calls' = calls + 1
    /\ LET r == add_fact(file, fact, now)
       IN  /\ file' = r.file
           /\ last' = Call("add_fact", fact, <<>>, Null, r.raised, Null, <<>>,
                           file)
    /\ UNCHANGED <<now, exceptClient>>

CallAddPreference(key, value) ==
    /\ calls < MaxCalls
    /\ calls' = calls + 1
    /\ LET r == add_preference(file, key, value)
       IN  /\ file' = r.file
           /\ last' = Call("add_preference", Null, key, value, r.raised, Null,
                           <<>>, file)
    /\ UNCHANGED <<now, exceptClient>>

CallGetMemorySummary ==
    /\ calls < MaxCalls
    /\ calls' = calls + 1
    /\ LET r == get_memory_summary(file)
       IN  last' = Call("get_memory_summary", Null, <<>>, Null, r.raised, Null,
                        r.text, file)
    /\ UNCHANGED <<fileVars, exceptClient>>

ClientTick == Tick /\ UNCHANGED <<seqVars, exceptClient>>

NextMemSeq ==
    \/ CallLoadMemories
    \/ \E fact \in Contents : CallAddFact(fact)
    \/ \E key \in PreferenceKeys, value \in {Pizza, Sushi} :
          CallAddPreference(key, value)
    \/ CallGetMemorySummary
    \/ ClientTick

InitSpecMemSeq ==
    InitFile /\ InitClient /\ ReactIdle /\ RoundTripIdle /\ ConcurrentIdle
    /\ RunsIdle /\ BatchIdle

SpecMemSeq == InitSpecMemSeq /\ [][NextMemSeq]_vars

\* The facts list a file holds (nothing when the file is missing)
FactsIn(f) ==
    IF f.kind = "missing" THEN <<>>
    ELSE Get(JsonLoad(f.text).val, <<"facts">>).items

\* The file holds a memory object: facts list, preferences map,
\* conversations list
HoldsMemory(f) ==
    /\ f.kind = "text"
    /\ LET r == JsonLoad(f.text)
           v == r.val
       IN  /\ r.ok
           /\ v.k = "dict"
           /\ HasKey(v, <<"facts">>) /\ Get(v, <<"facts">>).k = "list"
           /\ HasKey(v, <<"preferences">>)
           /\ Get(v, <<"preferences">>).k = "dict"
           /\ HasKey(v, <<"conversations">>)
           /\ Get(v, <<"conversations">>).k = "list"

\* The file does not hold valid JSON
InvalidJson(f) ==
    \/ f.kind = "bytes"
    \/ f.kind = "text" /\ ~JsonLoad(f.text).ok

\* C4: in a sequence of calls on a file that is missing or holds a memory
\* object, add_fact(f) leaves the facts list equal to the previous list with
\* one entry for f appended at the end, and add_preference leaves the facts
\* list as it was: nothing is removed, reordered or de-duplicated.
C4_NoEviction ==
    (last.before.kind = "missing" \/ HoldsMemory(last.before)) =>
        /\ last.op \in {"add_fact", "add_preference"} =>
              ~last.raised /\ HoldsMemory(file)
        /\ last.op = "add_fact" =>
              LET old == FactsIn(last.before)
                  new == FactsIn(file)
              IN  /\ Len(new) = Len(old) + 1
                  /\ SubSeq(new, 1, Len(old)) = old
                  /\ Get(new[Len(new)], <<"content">>) = last.fact
        /\ last.op = "add_preference" => FactsIn(file) = FactsIn(last.before)

\* C4 witness: add_fact of a fact the file already holds, called on a file
\* with two facts; the file now holds three.
C4_Witness ==
    /\ last.op = "add_fact"
    /\ HoldsMemory(last.before)
    /\ Len(FactsIn(last.before)) = 2
    /\ \E i \in 1..2 : Get(FactsIn(last.before)[i], <<"content">>) = last.fact
    /\ Len(FactsIn(file)) = 3

\* C6: load_memories returns the empty memory whenever the file does not
\* exist or does not hold valid JSON; it raises nothing then and leaves the
\* file as it was.
C6_LoadFallsBack ==
    (last.op = "load_memories"
     /\ (last.before.kind = "missing" \/ InvalidJson(last.before))) =>
        /\ ~last.raised
        /\ last.ret = EmptyMemory
        /\ file = last.before

\* The part of C6 that the code keeps: a missing file and undecodable JSON
\* text.
C6_TextOrMissing ==
    (last.op = "load_memories" /\ last.before.kind # "bytes"
     /\ (last.before.kind = "missing" \/ InvalidJson(last.before))) =>
        /\ ~last.raised
        /\ last.ret = EmptyMemory
        /\ file = last.before

-----------------------------------------------------------------------------
(* Two clients (threads or processes) that call add_fact or add_preference *)
(* on the same file.  A call is three steps: load and update the local     *)
(* copy, open the file for writing (which truncates it), write and close.  *)

Procs == {1, 2}

Op(op, fact, key, value) == [op |-> op, fact |-> fact, key |-> key, value |-> value]

MemOps == {Op("add_fact", Pizza, <<>>, Null),
           Op("add_fact", Sushi, <<>>, Null),
           Op("add_preference", Null, <<"food">>, Pizza),
           Op("add_preference", Null, <<"name">>, Sushi)}

NoOp == Op("none", Null, <<>>, Null)

\* A write that lands after all that the file holds (a file opened with 'a')
WriteAt0_append(new, old) == old \o new

\* json.dump and close on a file opened with 'w': the text goes to offset 0
\* and what another writer put beyond its end stays
WriteAt0(new, old) ==
    IF Len(old) > Len(new)
    THEN new \o SubSeq(old, Len(new) + 1, Len(old))
    ELSE new

InitConcurrent ==
    /\ mpc = [p \in Procs |-> "call"]
    /\ mop = [p \in Procs |-> NoOp]
    /\ mem = [p \in Procs |-> Null]
    /\ file0 = file
    /\ writes = 0
    /\ seen = [p \in Procs |-> 0]

\* lines 33-37 or 42-43: load_memories and the update of the local copy
MLoad(p, o) ==
    /\ mpc[p] = "call"
    /\ mop' = [mop EXCEPT ![p] = o]
    /\ seen' = [seen EXCEPT ![p] = writes]
    /\ LET loaded == load_memories(file)
           memories == IF loaded.raised THEN Raise
                       ELSE IF o.op = "add_fact"
                            THEN WithFact(loaded.value, o.fact, now)
                            ELSE WithPreference(loaded.value, o.key, o.value)
       IN  IF memories.raised
           THEN /\ mpc' = [mpc EXCEPT ![p] = "raised"]
                /\ UNCHANGED mem
           ELSE /\ mpc' = [mpc EXCEPT ![p] = "modified"]
                /\ mem' = [mem EXCEPT ![p] = memories.value]
    /\ UNCHANGED <<fileVars, file0, writes, exceptConcurrent>>

\* line 28: open(self.memory_file_path, 'w', ...)
MOpen(p) ==
    /\ mpc[p] = "modified"
    /\ mpc' = [mpc EXCEPT ![p] = "opened"]
    /\ file' = FileText(<<>>)
    /\ writes' = writes + 1
    /\ UNCHANGED <<now, mop, mem, file0, seen, exceptConcurrent>>

\* line 29: json.dump(...) and the close of the with block
MWrite(p) ==
    /\ mpc[p] = "opened"
    /\ mpc' = [mpc EXCEPT ![p] = "done"]
    /\ file' = FileText(WriteAt0(Dumps(mem[p]), file.text))
    /\ UNCHANGED <<now, mop, mem, file0, writes, seen, exceptConcurrent>>

ConcurrentTick == Tick /\ UNCHANGED <<concVars, exceptConcurrent>>

NextMem ==
    \/ \E p \in Procs, o \in MemOps : MLoad(p, o)
    \/ \E p \in Procs : MOpen(p)
    \/ \E p \in Procs : MWrite(p)
    \/ ConcurrentTick

InitSpecMem ==
    InitFile /\ InitConcurrent /\ ReactIdle /\ RoundTripIdle /\ ClientIdle
    /\ RunsIdle /\ BatchIdle

SpecMem == InitSpecMem /\ [][NextMem]_vars

\* Both clients have completed, and both loaded before either opened the
\* file for writing
BothLoadedFirst ==
    /\ \A p \in Procs : mpc[p] = "done"
    /\ \A p \in Procs : seen[p] = 0

\* The memory a file stands for
Stored(f) ==
    IF f.kind = "text" /\ JsonLoad(f.text).ok THEN JsonLoad(f.text).val
    ELSE EmptyMemory

\* The file holds the original memory with the update of client p and
\* nothing else
ShowsOnly(p) ==
    LET old == Stored(file0)
        new == Stored(file)
        oldFacts == Get(old, <<"facts">>).items
        newFacts == Get(new, <<"facts">>).items
        oldPrefs == Get(old, <<"preferences">>).items
        newPrefs == Get(new, <<"preferences">>).items
        Value(prefs, key) ==
            IF \E i \in 1..Len(prefs) : prefs[i].key = key
            THEN prefs[CHOOSE i \in 1..Len(prefs) : prefs[i].key = key].val
            ELSE Str(<<"<absent>">>)
    IN  /\ HoldsMemory(file)
        /\ Get(new, <<"conversations">>) = Get(old, <<"conversations">>)
        /\ IF mop[p].op = "add_fact"
           THEN /\ Len(newFacts) = Len(oldFacts) + 1
                /\ SubSeq(newFacts, 1, Len(oldFacts)) = oldFacts
                /\ Get(newFacts[Len(newFacts)], <<"content">>) = mop[p].fact
                /\ newPrefs = oldPrefs
           ELSE /\ newFacts = oldFacts
                /\ \A key \in PreferenceKeys :
                      Value(newPrefs, key) =
                          IF key = mop[p].key THEN mop[p].value
                          ELSE Value(oldPrefs, key)

\* C3: add_fact and add_preference are unsynchronised load-then-save
\* sequences: when two of them on the same file have both loaded before
\* either saved and both have completed, the file holds the update of one of
\* them only (or, when the two texts differ in length, a torn text that is no
\* memory at all); it never holds both updates.
C3_LostUpdate ==
    BothLoadedFirst =>
        \/ \E p \in Procs : ShowsOnly(p)
        \/ /\ ~HoldsMemory(file)
           /\ Len(Dumps(mem[1])) # Len(Dumps(mem[2]))

\* C3 witness: both clients loaded a file with stored facts, each added a
\* fact of its own, both completed, and the file holds the fact of client 2
\* but not the fact of client 1.
C3_Witness ==
    /\ BothLoadedFirst
    /\ mop[1] = Op("add_fact", Pizza, <<>>, Null)
    /\ mop[2] = Op("add_fact", Sushi, <<>>, Null)
    /\ HoldsMemory(file0)
    /\ Len(FactsIn(file0)) = 1
    /\ HoldsMemory(file)
    /\ Len(FactsIn(file)) = 2
    /\ Get(FactsIn(file)[2], <<"content">>) = Sushi
    /\ \A i \in 1..2 : Get(FactsIn(file)[i], <<"content">>) # Pizza

-----------------------------------------------------------------------------
(* simple-agent-with-memory.py: the script, run again and again on the     *)
(* same memory file.                                                        *)

\* arguments.get(name)
ArgGet(arguments, name) ==
    IF HasKey(arguments, name) THEN Get(arguments, name) ELSE Null

\* content.split(): the words of a string, " " being its white space
RECURSIVE Split(_, _)
Split(str, word) ==
    IF str = <<>> THEN (IF word = <<>> THEN <<>> ELSE <<word>>)
    ELSE IF Head(str) = " "
         THEN (IF word = <<>> THEN <<>> ELSE <<word>>) \o Split(Tail(str), <<>>)
         ELSE Split(Tail(str), Append(word, Head(str)))

Saved(f, text, kind, key) ==
    [raised |-> FALSE, file |-> f, text |-> text, kind |-> kind, key |-> key]
SaveRaised(f) ==
    [raised |-> TRUE, file |-> f, text |-> <<>>, kind |-> "none", key |-> <<>>]

\* save_memory (lines 34-43)
save_memory(f, memory_type, content, key, t) ==
    CASE memory_type = Str(<<"fact">>) ->
            CHOOSE out \in
                { IF r.raised THEN SaveRaised(f)
                  ELSE Saved(r.file, <<"Fact saved to memory">>, "fact", <<>>)
                  : r \in {add_fact(f, content, t)} } : TRUE
      [] memory_type = Str(<<"preference">>) ->
            IF \/ Truthy(key) /\ key.k # "str"
               \/ ~Truthy(key) /\ content.k # "str"
               \/ ~Truthy(key) /\ Split(content.s, <<>>) = <<>>
            THEN SaveRaised(f)
            ELSE CHOOSE out \in
                     { IF r.raised THEN SaveRaised(f)
                       ELSE Saved(r.file, <<"Preference saved to memory">>,
                                  "preference", r.key)
                       : r \in
                             { add_preference(f, word, content)
                               @@ [key |-> word]
                               : word \in
                                     {IF Truthy(key) THEN key.s
                                      ELSE Split(content.s, <<>>)[1]} } } : TRUE
      [] OTHER -> Saved(f, <<"Unknown memory type">>, "none", <<>>)

\* execute_function_call (lines 74-83)
agent_execute_function_call(f, function_name, arguments, t) ==
    IF function_name = "save_memory"
    THEN IF arguments.k # "dict" THEN SaveRaised(f)
         ELSE save_memory(f, ArgGet(arguments, <<"memory_type">>),
                          ArgGet(arguments, <<"content">>),
                          ArgGet(arguments, <<"key">>), t)
    ELSE Saved(f, <<"Error: Unknown function ", function_name>>, "none", <<>>)

Entry(kind, key, content, run) ==
    [kind |-> kind, key |-> key, content |-> content, run |-> run]

\* One pass of the for loop of chat (lines 105-109): json.loads of the
\* arguments, then execute_function_call
ToolCallOutcome(f, tool_call, t) ==
    CHOOSE out \in
        { IF ~parsed.ok THEN SaveRaised(f) @@ [content |-> Null]
          ELSE agent_execute_function_call(f, tool_call.function.name,
                                           parsed.val, t)
               @@ [content |-> IF parsed.val.k = "dict"
                               THEN ArgGet(parsed.val, <<"content">>)
                               ELSE Null]
          : parsed \in
                {IF tool_call.function.arguments = <<>>
                 THEN ParseOk(Dict(<<>>), 1)
                 ELSE JsonLoad(tool_call.function.arguments)} } : TRUE

\* The for loop of chat (lines 104-116): the file, the messages and the log
\* when the loop ends or a call raises
RECURSIVE AgentToolCalls(_, _, _, _, _, _)
AgentToolCalls(tool_calls, f, msgs, log, run, t) ==
    IF tool_calls = <<>>
    THEN [raised |-> FALSE, file |-> f, msgs |-> msgs, log |-> log]
    ELSE CHOOSE out \in
             { IF r.raised
               THEN [raised |-> TRUE, file |-> f, msgs |-> msgs, log |-> log]
               ELSE AgentToolCalls(
                        Tail(tool_calls), r.file,
                        Append(msgs, [role |-> "tool",
                                      tool_call_id |-> Head(tool_calls).id,
                                      content |-> r.text]),
                        IF r.kind = "none" THEN log
                        ELSE Append(log, Entry(r.kind, r.key, r.content, run)),
                        run, t)
               : r \in {ToolCallOutcome(f, Head(tool_calls), t)} } : TRUE

AgentCall(id, name, arguments) ==
    [id |-> id, function |-> [name |-> name, arguments |-> arguments]]

SaveArgs(memory_type, content) ==
    Dumps(Dict(<<Item(<<"memory_type">>, Str(<<memory_type>>)),
                 Item(<<"content">>, content)>>))

SaveArgsKey(memory_type, content, key) ==
    Dumps(Dict(<<Item(<<"memory_type">>, Str(<<memory_type>>)),
                 Item(<<"content">>, content),
                 Item(<<"key">>, Str(key))>>))

\* What the model can answer to a chat request: choices[0].message
AgentMessages == <<
    [role |-> "assistant", content |-> <<"Nice to meet you, Alex!">>],
    [role |-> "assistant", content |-> None,
     tool_calls |-> <<AgentCall("c1", "save_memory", SaveArgs("fact", Pizza))>>],
    [role |-> "assistant", content |-> None,
     tool_calls |-> <<AgentCall("c1", "save_memory",
                                SaveArgsKey("preference", Pizza, <<"food">>))>>],
    [role |-> "assistant", content |-> None,
     tool_calls |-> <<AgentCall("c1", "save_memory",
                                SaveArgsKey("preference", Sushi, <<"food">>)),
                      AgentCall("c2", "save_memory", SaveArgs("fact", Sushi))>>],
    [role |-> "assistant", content |-> None,
     tool_calls |-> <<AgentCall("c1", "save_memory",
                                SaveArgs("preference", Pizza))>>],
    [role |-> "assistant", content |-> None,
     tool_calls |-> <<AgentCall("c1", "recall", <<>>),
                      AgentCall("c2", "save_memory", SaveArgs("note", Pizza)),
                      AgentCall("c3", "save_memory",
                                SaveArgs("preference", Str(<<" ">>)))>>]
>>

\* prompt1, prompt2 (lines 138, 144)
AgentPrompts == <<<<"Hi! My name is Alex and I love pizza.">>,
                  <<"What's my favorite food?">>>>

\* The answer of the request that follows the tool calls
FinalAnswer == <<"Got it.">>

\* system_prompt (lines 19-23)
AgentSystemPrompt(memory_summary) ==
    <<"You are a helpful assistant with long-term memory.\n">>
    \o memory_summary
    \o <<"\n\nWhen the user shares important information ...">>

\* Files a run can find
RunFiles == <<FileMissing, MemoryFiles[2], InvalidFiles[2], FileBytes,
              OtherFiles[3]>>

InitRuns ==
    /\ \E i \in 1..Len(RunFiles) : file = RunFiles[i]
    /\ now = 0
    /\ spc = "start"
    /\ runs = 0
    /\ agent_prompt = <<>>
    /\ agent_messages = <<>>
    /\ stored = <<>>

\* The script is started (lines 14-23 and 135)
RunStart ==
    /\ spc \in {"start", "ended", "crashed", "failed"}
    /\ runs < MaxRuns
    /\ runs' = runs + 1
    /\ \E memory_summary \in {get_memory_summary(file)} :
           IF memory_summary.raised
           THEN /\ spc' = "failed"
                /\ agent_prompt' = <<>>
                /\ agent_messages' = <<>>
           ELSE /\ spc' = "chat1"
                /\ agent_prompt' = AgentSystemPrompt(memory_summary.text)
                /\ agent_messages' =
                       <<[role |-> "system",
                          content |-> AgentSystemPrompt(memory_summary.text)]>>
    /\ UNCHANGED <<fileVars, stored, exceptRuns>>

\* chat (lines 86-131): `message` is the message of the model's response
Chat(message) ==
    /\ spc \in {"chat1", "chat2"}
    /\ LET user_message == AgentPrompts[IF spc = "chat1" THEN 1 ELSE 2]
           msgs == Append(agent_messages,
                          [role |-> "user", content |-> user_message])
           next == IF spc = "chat1" THEN "chat2" ELSE "ended"
       IN  IF "tool_calls" \in DOMAIN message /\ message.tool_calls # <<>>
           THEN \E run \in {AgentToolCalls(message.tool_calls, file,
                                            Append(msgs, message), stored, runs,
                                            now)} :
                    /\ file' = run.file
                    /\ stored' = run.log
                    /\ IF run.raised
                       THEN /\ spc' = "crashed"
                            /\ agent_messages' = run.msgs
                       ELSE /\ spc' = next
                            /\ agent_messages' =
                                   Append(run.msgs, [role |-> "assistant",
                                                     content |-> FinalAnswer])
           ELSE /\ spc' = next
                /\ agent_messages' =
                       Append(msgs, [role |-> "assistant",
                                     content |-> message.content])
                /\ UNCHANGED <<file, stored>>
    /\ UNCHANGED <<now, runs, agent_prompt, exceptRuns>>

\* Time passes between two runs
RunsTick ==
    /\ spc \in {"ended", "crashed", "failed"}
    /\ Tick
    /\ UNCHANGED <<runVars, exceptRuns>>

NextRuns ==
    \/ RunStart
    \/ \E i \in 1..Len(AgentMessages) : Chat(AgentMessages[i])
    \/ RunsTick

InitSpecRuns ==
    /\ InitRuns /\ ReactIdle /\ RoundTripIdle /\ ClientIdle /\ ConcurrentIdle
    /\ BatchIdle

SpecRuns == InitSpecRuns /\ [][NextRuns]_vars

\* The entry is in the memory object m
EntryIn(e, m) ==
    /\ m.k = "dict"
    /\ IF e.kind = "fact"
       THEN /\ HasKey(m, <<"facts">>)
            /\ Get(m, <<"facts">>).k = "list"
            /\ \E i \in 1..Len(Get(m, <<"facts">>).items) :
                   LET fact == Get(m, <<"facts">>).items[i]
                   IN  /\ fact.k = "dict"
                       /\ HasKey(fact, <<"content">>)
                       /\ Get(fact, <<"content">>) = e.content
       ELSE /\ HasKey(m, <<"preferences">>)
            /\ Get(m, <<"preferences">>).k = "dict"
            /\ HasKey(Get(m, <<"preferences">>), e.key)
            /\ Get(Get(m, <<"preferences">>), e.key) = e.content

\* The entry is in the memory file
EntryInFile(e) ==
    /\ file.kind = "text"
    /\ \E r \in {JsonLoad(file.text)} : r.ok /\ EntryIn(e, r.val)

\* The line of the entry in a memory summary
EntryLine(e) ==
    IF e.kind = "fact"
    THEN <<"- ">> \o Format(e.content) \o <<"\n">>
    ELSE <<"- ">> \o e.key \o <<": ">> \o Format(e.content) \o <<"\n">>

\* The run in progress built its system prompt, and the entry's line is in it
EntryListed(e) ==
    /\ spc \in {"chat1", "chat2", "ended", "crashed"}
    /\ Contains(agent_prompt, EntryLine(e))

\* stored[k] is a preference that save_memory stored again, under the same
\* key, before the run numbered `before`
Overwritten(k, before) ==
    /\ stored[k].kind = "preference"
    /\ \E j \in (k + 1)..Len(stored) :
           /\ stored[j].kind = "preference"
           /\ stored[j].key = stored[k].key
           /\ stored[j].run < before

\* C7 as stated: every fact and every preference that save_memory stored is
\* in the memory file afterwards, and the system prompt of every later run
\* lists it.
C7_Persists ==
    \A k \in 1..Len(stored) :
        /\ EntryInFile(stored[k])
        /\ stored[k].run < runs => EntryListed(stored[k])

\* C7, amended: every fact that save_memory stored is in the memory file
\* afterwards and the system prompt of every later run lists it; a
\* preference is in the file and listed under its key for as long as
\* save_memory has not stored another one under the same key, which then
\* takes its place.
C7_PersistsLatest ==
    \A k \in 1..Len(stored) :
        /\ ~Overwritten(k, runs + 1) => EntryInFile(stored[k])
        /\ (stored[k].run < runs /\ ~Overwritten(k, runs))
               => EntryListed(stored[k])

\* A second run lists a fact and a preference of the first run, the
\* preference being the one that took the place of an earlier one
C7_Witness ==
    /\ runs = 2
    /\ spc = "chat1"
    /\ \E k \in 1..Len(stored) :
           /\ stored[k].kind = "fact"
           /\ stored[k].run = 1
           /\ EntryListed(stored[k])
    /\ \E k, j \in 1..Len(stored) :
           /\ k < j
           /\ stored[k].kind = "preference" /\ stored[j].kind = "preference"
           /\ stored[k].key = stored[j].key
           /\ stored[k].content # stored[j].content
           /\ stored[j].run = 1
           /\ EntryListed(stored[j])
           /\ ~EntryListed(stored[k])

-----------------------------------------------------------------------------
(* batch.py: main fans two process_prompt coroutines out with              *)
(* asyncio.gather; each hands its blocking chat completion, on the one     *)
(* Llama instance of main, to the default thread pool executor.            *)

Tasks == {1, 2}

Other(i) == IF i = 1 THEN 2 ELSE 1

\* q1, q2 (lines 43-44) and the labels (lines 48-49)
Prompts == <<"Hi there, how are you?", "How much is 6+6?">>
Labels == <<"Q1", "Q2">>

\* What a chat completion can answer
Answers == {"I am fine.", "12", ""}

InitBatch ==
    /\ bmain = "gather"
    /\ task = [i \in Tasks |-> "new"]
    /\ job = [i \in Tasks |-> "none"]
    /\ raced = [i \in Tasks |-> FALSE]
    /\ answers = [i \in Tasks |-> ""]
    /\ finished = <<>>
    /\ results = <<>>
    /\ printed = <<>>

\* process_prompt up to its await (lines 22-28): the event loop starts the
\* coroutines in the order gather received them
TaskStart(i) ==
    /\ bmain = "gather"
    /\ task[i] = "new"
    /\ \A j \in Tasks : j < i => task[j] # "new"
    /\ task' = [task EXCEPT ![i] = "waiting"]
    /\ job' = [job EXCEPT ![i] = "queued"]
    /\ UNCHANGED <<bmain, raced, answers, finished, results, printed,
                   exceptBatch>>

\* A pool thread picks the job up and enters llama.create_chat_completion
\* (line 25): the pool has a thread for every job
JobRun(i) ==
    /\ job[i] = "queued"
    /\ job' = [job EXCEPT ![i] = "running"]
    /\ raced' = IF job[Other(i)] = "running"
                THEN [j \in Tasks |-> TRUE]
                ELSE raced
    /\ UNCHANGED <<bmain, task, answers, finished, results, printed,
                   exceptBatch>>

\* The chat completion returns
JobFinish(i, a) ==
    /\ job[i] = "running"
    /\ job' = [job EXCEPT ![i] = "finished"]
    /\ answers' = [answers EXCEPT ![i] = a]
    /\ finished' = Append(finished, i)
    /\ UNCHANGED <<bmain, task, raced, results, printed, exceptBatch>>

\* The chat completion fails: two calls that run on one Llama instance at
\* the same time race on its state
JobCrash(i) ==
    /\ job[i] = "running"
    /\ raced[i]
    /\ job' = [job EXCEPT ![i] = "crashed"]
    /\ UNCHANGED <<bmain, task, raced, answers, finished, results, printed,
                   exceptBatch>>

\* process_prompt after its await (lines 29-30)
TaskResume(i) ==
    /\ task[i] = "waiting"
    /\ job[i] \in {"finished", "crashed"}
    /\ task' = [task EXCEPT ![i] = IF job[i] = "finished" THEN "returned"
                                   ELSE "failed"]
    /\ UNCHANGED <<bmain, job, raced, answers, finished, results, printed,
                   exceptBatch>>

\* return label, prompt, answer (line 30)
ProcessPromptResult(i) ==
    [label |-> Labels[i], prompt |-> Prompts[i], answer |-> answers[i]]

\* Results in the order the jobs finished
GatherResults_asCompleted ==
    [k \in 1..Len(finished) |-> ProcessPromptResult(finished[k])]

\* What asyncio.gather returns: the results in the order of its arguments
GatherResults == <<ProcessPromptResult(1), ProcessPromptResult(2)>>

\* The print loop (lines 53-55)
RECURSIVE PrintLines(_)
PrintLines(rs) ==
    IF rs = <<>> THEN <<>>
    ELSE <<"User: " \o Head(rs).prompt, "AI: " \o Head(rs).answer \o "\n">>
         \o PrintLines(Tail(rs))

\* main after the await of gather (lines 47-55)
MainPrint ==
    /\ bmain = "gather"
    /\ \A i \in Tasks : task[i] = "returned"
    /\ results' = GatherResults
    /\ printed' = PrintLines(GatherResults)
    /\ bmain' = "done"
    /\ UNCHANGED <<task, job, raced, answers, finished, exceptBatch>>

\* gather passes the first exception on to main
MainFail ==
    /\ bmain = "gather"
    /\ \E i \in Tasks : task[i] = "failed"
    /\ bmain' = "failed"
    /\ UNCHANGED <<task, job, raced, answers, finished, results, printed,
                   exceptBatch>>

NextBatch ==
    \/ \E i \in Tasks : TaskStart(i)
    \/ \E i \in Tasks : JobRun(i)
    \/ \E i \in Tasks, a \in Answers : JobFinish(i, a)
    \/ \E i \in Tasks : JobCrash(i)
    \/ \E i \in Tasks : TaskResume(i)
    \/ MainPrint
    \/ MainFail

InitSpecBatch ==
    /\ InitBatch /\ ReactIdle /\ FileIdle /\ RoundTripIdle /\ ClientIdle
    /\ ConcurrentIdle /\ RunsIdle

SpecBatch == InitSpecBatch /\ [][NextBatch]_vars

\* C5: the two requests of asyncio.gather are independent: at no point are
\* two chat completions in flight at the same time on the same Llama
\* instance.
C5_OneInFlight == ~(job[1] = "running" /\ job[2] = "running")

\* C9: main prints the results in the order Q1 then Q2, each answer with the
\* prompt and label of its own call, whichever completion finishes first,
\* and prints nothing before both completions have finished.
C9_PrintedInOrder ==
    /\ printed # <<>> =>
          /\ \A i \in Tasks : job[i] = "finished"
          /\ Len(results) = 2
          /\ \A i \in Tasks :
                /\ results[i].label = Labels[i]
                /\ results[i].prompt = Prompts[i]
                /\ results[i].answer = answers[i]
          /\ printed = <<"User: " \o Prompts[1], "AI: " \o answers[1] \o "\n",
                         "User: " \o Prompts[2], "AI: " \o answers[2] \o "\n">>
    /\ bmain = "done" => printed # <<>>

\* C9 witness: the completion of Q2 finished first, with another answer
\* than that of Q1, and main has printed.
C9_Witness ==
    /\ bmain = "done"
    /\ finished = <<2, 1>>
    /\ answers[1] # answers[2]
    /\ printed # <<>>

-----------------------------------------------------------------------------
(* Claims about react_agent, checked under SpecReact *)

\* max(N, 0)
IterationLimit == IF max_iterations > 0 THEN max_iterations ELSE 0

\* The text streamed by pass k holds "answer:" in some mix of cases
PassHasMarker(k) ==
    \E i \in 1..Len(streamed[k]) :
        /\ i + 6 <= Len(streamed[k])
        /\ streamed[k][i] \in {"a", "A"}
        /\ streamed[k][i + 1] \in {"n", "N"}
        /\ streamed[k][i + 2] \in {"s", "S"}
        /\ streamed[k][i + 3] \in {"w", "W"}
        /\ streamed[k][i + 4] \in {"e", "E"}
        /\ streamed[k][i + 5] \in {"r", "R"}
        /\ streamed[k][i + 6] = ":"

LastPassHasMarker == iteration > 0 /\ PassHasMarker(iteration)

\* C1: react_agent(user_prompt, max_iterations=N) is a bounded loop: whatever
\* the model streams and whatever tool calls it sends, the loop body runs at
\* most N times, at most N streaming completions are requested, and the call
\* ends by returning (never by an exception).
C1_BoundedLoopReturns ==
    /\ iteration <= IterationLimit
    /\ streamCalls <= IterationLimit
    /\ rpc \in {"loop", "check", "returned"}

\* The part of C1 that the code keeps: the loop body and the streaming
\* requests are bounded by N.
C1_Bounded ==
    /\ iteration <= IterationLimit
    /\ streamCalls = iteration

\* C2: react_agent returns in the first pass whose own streamed text holds
\* "answer:" (any case); in that pass it sends no check request, runs no tool
\* and appends nothing after the assistant message; a pass whose text lacks
\* "answer:" never returns before the iteration limit.
C2_ReturnsOnMarker ==
    /\ LastPassHasMarker =>
          /\ rpc = "returned"
          /\ result = Flatten(streamed)
          /\ checkCalls = iteration - 1
          /\ messages[Len(messages)].role = "assistant"
          /\ messages[Len(messages)].content = streamed[iteration]
          /\ \A k \in 1..(iteration - 1) : ~PassHasMarker(k)
    /\ (rpc = "returned" /\ ~LastPassHasMarker) => ~(iteration < max_iterations)

C2_ReturnStep ==
    (rpc = "loop" /\ rpc' = "returned" /\ iteration' = iteration + 1) =>
        /\ checkCalls' = checkCalls
        /\ toolExecs' = toolExecs
        /\ Len(messages') = Len(messages) + 1

C2_TerminatesBySubstring == [](C2_ReturnsOnMarker) /\ [][C2_ReturnStep]_vars

\* C2 witness: the second pass streams "ANSWER:8" after a first pass without
\* the marker that ran a tool, and react_agent has returned.
C2_Witness ==
    /\ rpc = "returned"
    /\ iteration = 2
    /\ iteration < max_iterations
    /\ LastPassHasMarker
    /\ ~Contains(current_chunk, AnswerMarker)
    /\ toolExecs > 0

\* C10: at the iteration limit without a final answer react_agent returns the
\* accumulated streamed text when it is non-empty and the fallback string
\* otherwise; with max_iterations <= 0 it makes no model call and returns the
\* fallback string.
C10_LimitReturn ==
    /\ (rpc = "returned" /\ ~LastPassHasMarker) =>
          result = IF Flatten(streamed) = <<>> THEN Fallback
                   ELSE Flatten(streamed)
    /\ max_iterations <= 0 =>
          /\ streamCalls = 0
          /\ checkCalls = 0
          /\ rpc = "returned" => result = Fallback

\* C10 witness: the limit is reached after passes that streamed only empty
\* text, and the fallback string is returned.
C10_Witness ==
    /\ rpc = "returned"
    /\ max_iterations >= 2
    /\ iteration = max_iterations
    /\ Flatten(streamed) = <<>>
    /\ result = Fallback

\* The message list from position n on holds the text as a content
TextInHistory(msgs, n, text) ==
    \E i \in n..Len(msgs) : msgs[i].content = text

\* The response carries tool calls (line 221)
CarriesToolCalls(response) ==
    /\ "choices" \in DOMAIN response
    /\ "tool_calls" \in DOMAIN response.choices[1].message
    /\ response.choices[1].message.tool_calls # <<>>

\* text ends with tail
EndsWith(text, tail) ==
    /\ Len(tail) <= Len(text)
    /\ \A j \in 1..Len(tail) : text[Len(text) - Len(tail) + j] = tail[j]

\* A step that handles a check response with tool calls: the last message,
\* which is the assistant message holding the streamed text, becomes the
\* check message, the messages before it stay, only tool messages follow
\* it, and the accumulated text keeps the streamed text
C11_ReplaceStep ==
    (rpc = "check" /\ rpc' # "check" /\ CarriesToolCalls(check_response')) =>
        LET n == Len(messages)
        IN  /\ messages[n] = [role |-> "assistant", content |-> current_chunk]
            /\ Len(messages') >= n
            /\ messages'[n] = check_response'.choices[1].message
            /\ \A i \in 1..(n - 1) : messages'[i] = messages[i]
            /\ \A i \in (n + 1)..Len(messages') : messages'[i].role = "tool"
            /\ ~TextInHistory(messages', n, current_chunk)
            /\ full_response' = full_response
            /\ EndsWith(full_response', current_chunk)

\* C11: when the check response carries tool calls, the assistant message
\* just appended is replaced in place by the check message, so the list
\* keeps its length at that step and the text streamed in the iteration is
\* no longer in the history, while it stays in the accumulated text and in
\* the value react_agent returns.
C11_ReplacedInPlace ==
    /\ [][C11_ReplaceStep]_vars
    /\ [](rpc = "returned" =>
             \A k \in 1..Len(streamed) : Contains(result, streamed[k]))

\* C11 witness: react_agent returned after a first iteration whose check
\* response carried tool calls: the third message is the check message, no
\* message holds the text streamed then, and the returned text holds it.
C11_Witness ==
    /\ rpc = "returned"
    /\ Len(streamed) >= 2
    /\ streamed[1] # <<>>
    /\ "tool_calls" \in DOMAIN messages[3]
    /\ messages[4].role = "tool"
    /\ ~TextInHistory(messages, 1, streamed[1])
    /\ Contains(result, streamed[1])

=============================================================================
